---- MODULE Spec2Model ----
(***************************************************************************)
(* Model of super_simple.py (DocRAG - Simple PDF Processor).               *)
(*                                                                         *)
(* Text is a sequence of one-character strings.  Four specifications:      *)
(*   SpecChunk  the character chunking loop of process_pdfs                *)
(*   SpecMd     generate_markdown                                          *)
(*   SpecAsm    prepare_openwebui_collection over a chunks directory       *)
(*   Spec       runs of process_pdfs over the output directories           *)
(***************************************************************************)
EXTENDS Integers, Sequences, FiniteSets, TLC

VARIABLES
    \* the chunking loop
    ckText, ckSource, ckSize, ckOverlap, ckPc, ckOut,
    \* generate_markdown
    mdText, mdPc, mdOut,
    \* prepare_openwebui_collection
    asmPc, all_chunks, uuidCount,
    \* the output directories
    chunks_dir, txt_files, md_files, json_files, ollama_files,
    knowledge_collection, instructions_file,
    \* a run of process_pdfs
    pc, runs, force_reprocess, skip_openwebui, pdf_files, idx,
    processed_count, skipped_count, file_details, assembleCalls,
    returned, touched, everProcessed, lastAttempt

ckVars == <<ckText, ckSource, ckSize, ckOverlap, ckPc, ckOut>>
mdVars == <<mdText, mdPc, mdOut>>
asmVars == <<asmPc, all_chunks, uuidCount>>
dirVars == <<chunks_dir, txt_files, md_files, json_files, ollama_files,
             knowledge_collection, instructions_file>>
runVars == <<pc, runs, force_reprocess, skip_openwebui, pdf_files, idx,
             processed_count, skipped_count, file_details, assembleCalls,
             returned, touched, everProcessed, lastAttempt>>
vars == <<ckVars, mdVars, asmVars, dirVars, runVars>>

(***************************************************************************)
(* Generic helpers                                                         *)
(***************************************************************************)
Min(a, b) == IF a < b THEN a ELSE b

Max(a, b) == IF a > b THEN a ELSE b

\* n copies of the character c
Repeat(c, n) == [k \in 1..n |-> c]

\* all sequences over S of length 0..n
SeqsUpTo(S, n) == UNION {[1..k -> S] : k \in 0..n}

\* Python's s[i:j] for 0 <= i, on a 0-based string held as a 1-based sequence
Slice(s, i, j) == SubSeq(s, i + 1, Min(j, Len(s)))

\* Python's s[i:]
SliceFrom(s, i) == SubSeq(s, i + 1, Len(s))

(***************************************************************************)
(* Bounds of the chunker inputs                                            *)
(***************************************************************************)
MaxTextLen == 5

MaxChunkSize == 4

MaxOverlap == 4

\* the values process_pdfs fixes
chunk_size == 1000

overlap == 100

ChunkChars == {"a", "b"}

(***************************************************************************)
(* The chunking loop of process_pdfs                                       *)
(***************************************************************************)
\* range(start, stop, step) raises ValueError when step is 0
RangeRaises(step) == step = 0

\* number of elements of range(start, stop, step), step # 0
RangeLen(start, stop, step) ==
    IF step > 0
    THEN (IF stop > start THEN ((stop - start - 1) \div step) + 1 ELSE 0)
    ELSE (IF start > stop THEN ((start - stop - 1) \div (0 - step)) + 1 ELSE 0)

\* PyRange with the element count rounded down: the last, shorter chunk is lost
PyRangeRoundedDown(start, stop, step) ==
    IF step > 0 /\ stop > start
    THEN [k \in 1..((stop - start) \div step) |-> start + (k - 1) * step]
    ELSE <<>>

\* range(start, stop, step) as a sequence, step # 0
PyRange(start, stop, step) ==
    [k \in 1..RangeLen(start, stop, step) |-> start + (k - 1) * step]

\* TotalChunks without the + 1
TotalChunksFloor(text, size, ovl) == Len(text) \div (size - ovl)

\* the value stored as total_chunks
TotalChunks(text, size, ovl) == (Len(text) \div (size - ovl)) + 1

\* one chunk record as appended by the loop body
MakeChunk(chunk, source, index, total) ==
    [text |-> chunk,
     metadata |-> [source |-> source, chunk_index |-> index, total_chunks |-> total]]

\* ChunkStep numbering the chunks from 1
ChunkStepOneBased(text, source, size, ovl, i, chunks) ==
    LET chunk == Slice(text, i, i + size)
    IN  IF chunk # <<>>
        THEN Append(chunks, MakeChunk(chunk, source, Len(chunks) + 1,
                                      TotalChunks(text, size, ovl)))
        ELSE chunks

\* the loop body for offset i, given the chunks appended so far
ChunkStep(text, source, size, ovl, i, chunks) ==
    LET chunk == Slice(text, i, i + size)
    IN  IF chunk # <<>>
        THEN Append(chunks, MakeChunk(chunk, source, Len(chunks),
                                      TotalChunks(text, size, ovl)))
        ELSE chunks

RECURSIVE ChunkLoop(_, _, _, _, _, _)
\* the for loop over the offsets still to visit
ChunkLoop(text, source, size, ovl, offsets, chunks) ==
    IF offsets = <<>>
    THEN chunks
    ELSE ChunkLoop(text, source, size, ovl, Tail(offsets),
                   ChunkStep(text, source, size, ovl, Head(offsets), chunks))

\* the chunking statement sequence: the raised exception (or "none") and the list
ChunkText(text, source, size, ovl) ==
    IF RangeRaises(size - ovl)
    THEN [raised |-> "ValueError", chunks |-> <<>>]
    ELSE [raised |-> "none",
          chunks |-> ChunkLoop(text, source, size, ovl,
                               PyRange(0, Len(text), size - ovl), <<>>)]

(***************************************************************************)
(* String methods used by generate_markdown                                *)
(***************************************************************************)
\* the bullet character U+2022
Bullet == "u2022"

Whitespace == {" ", "\n", "\t"}

UpperChars == {"A", "B", "C", "D", "E", "F", "G", "H", "I", "J", "K", "L", "M",
               "N", "O", "P", "Q", "R", "S", "T", "U", "V", "W", "X", "Y", "Z"}

LowerChars == {"a", "b", "c", "d", "e", "f", "g", "h", "i", "j", "k", "l", "m",
               "n", "o", "p", "q", "r", "s", "t", "u", "v", "w", "x", "y", "z"}

\* str.startswith(prefix)
StartsWith(s, prefix) ==
    /\ Len(prefix) <= Len(s)
    /\ SubSeq(s, 1, Len(prefix)) = prefix

\* str.endswith(suffix)
EndsWith(s, suffix) ==
    /\ Len(suffix) <= Len(s)
    /\ SubSeq(s, Len(s) - Len(suffix) + 1, Len(s)) = suffix

\* str.isupper(): some cased character, and no lower-case one
IsUpper(s) ==
    /\ \E k \in 1..Len(s) : s[k] \in UpperChars
    /\ \A k \in 1..Len(s) : s[k] \notin LowerChars

RECURSIVE LStrip(_)
LStrip(s) ==
    IF s # <<>> /\ Head(s) \in Whitespace THEN LStrip(Tail(s)) ELSE s

RECURSIVE RStrip(_)
RStrip(s) ==
    IF s # <<>> /\ s[Len(s)] \in Whitespace
    THEN RStrip(SubSeq(s, 1, Len(s) - 1))
    ELSE s

\* str.strip()
Strip(s) == RStrip(LStrip(s))

\* sep occurs in s at position k (1-based)
OccursAt(s, sep, k) ==
    /\ k >= 1
    /\ k + Len(sep) - 1 <= Len(s)
    /\ SubSeq(s, k, k + Len(sep) - 1) = sep

RECURSIVE IsSplitPoint(_, _, _)
\* the left-to-right scan of str.split cuts at k: sep occurs there and no earlier
\* cut overlaps it
IsSplitPoint(s, sep, k) ==
    /\ OccursAt(s, sep, k)
    /\ \A j \in Max(1, k - Len(sep) + 1)..(k - 1) : ~IsSplitPoint(s, sep, j)

\* the members of a finite set of integers in increasing order
Sorted(S) ==
    [i \in 1..Cardinality(S) |->
        CHOOSE m \in S : Cardinality({x \in S : x < m}) = i - 1]

\* str.split(sep) for a non-empty separator
Split(s, sep) ==
    LET cuts == Sorted({k \in 1..Len(s) : IsSplitPoint(s, sep, k)})
        n == Len(cuts)
    IN  [i \in 1..(n + 1) |->
            SubSeq(s,
                   IF i = 1 THEN 1 ELSE cuts[i - 1] + Len(sep),
                   IF i = n + 1 THEN Len(s) ELSE cuts[i] - 1)]

RECURSIVE Join(_, _)
\* sep.join(parts)
Join(parts, sep) ==
    IF parts = <<>>
    THEN <<>>
    ELSE IF Len(parts) = 1
         THEN parts[1]
         ELSE parts[1] \o sep \o Join(Tail(parts), sep)

Digits == <<"0", "1", "2", "3", "4", "5", "6", "7", "8", "9">>

RECURSIVE IntToChars(_)
\* the decimal digits an f-string prints for a non-negative integer
IntToChars(n) ==
    IF n < 10
    THEN <<Digits[n + 1]>>
    ELSE IntToChars(n \div 10) \o <<Digits[(n % 10) + 1]>>

(***************************************************************************)
(* generate_markdown                                                       *)
(***************************************************************************)
HEADING_MAX_LEN == 100

SHORT_HEADING_LEN == 50

NL == <<"\n">>

NLNL == <<"\n", "\n">>

\* the prefixes of the startswith tuple
ListMarkers == {<<Bullet>>, <<"-">>, <<"*">>, <<"1", ".">>, <<"2", ".">>}

\* the metadata header of the f-string
MarkdownHeader(title, page_count, pdf_filename, processed_date) ==
    <<"#", " ">> \o title \o NLNL
    \o <<"*", "*", "S", "o", "u", "r", "c", "e", "*", "*", ":", " ">>
    \o pdf_filename \o NL
    \o <<"*", "*", "P", "a", "g", "e", "s", "*", "*", ":", " ">>
    \o IntToChars(page_count) \o NL
    \o <<"*", "*", "P", "r", "o", "c", "e", "s", "s", "e", "d", "*", "*", ":", " ">>
    \o processed_date \o NLNL
    \o <<"-", "-", "-">> \o NLNL

RECURSIVE StripNonEmpty(_)
\* [p.strip() for p in pieces if p.strip()]
StripNonEmpty(pieces) ==
    IF pieces = <<>>
    THEN <<>>
    ELSE (IF Strip(Head(pieces)) # <<>> THEN <<Strip(Head(pieces))>> ELSE <<>>)
         \o StripNonEmpty(Tail(pieces))

\* the paragraphs list
Paragraphs(text) == StripNonEmpty(Split(text, NLNL))

\* any(line.strip().startswith((...)) for line in lines)
HasListLine(lines) ==
    \E k \in 1..Len(lines) : \E m \in ListMarkers : StartsWith(Strip(lines[k]), m)

RECURSIVE EachLine(_)
\* for line in lines: markdown += f"{line}\n"
EachLine(lines) ==
    IF lines = <<>> THEN <<>> ELSE Head(lines) \o NL \o EachLine(Tail(lines))

\* IsShortSingleLine with <= for <
IsShortSingleLineInclusive(paragraph, lines) ==
    Len(lines) = 1 /\ Len(paragraph) <= HEADING_MAX_LEN

\* the condition len(lines) == 1 and len(paragraph) < 100
IsShortSingleLine(paragraph, lines) ==
    Len(lines) = 1 /\ Len(paragraph) < HEADING_MAX_LEN

\* what the loop body appends to markdown for one paragraph
RenderParagraph(paragraph) ==
    LET lines == Split(paragraph, NL)
    IN  IF IsShortSingleLine(paragraph, lines)
        THEN IF IsUpper(paragraph) \/ EndsWith(paragraph, <<":">>)
                                   \/ EndsWith(paragraph, <<".">>)
             THEN IF Len(paragraph) < SHORT_HEADING_LEN
                  THEN <<"#", "#", " ">> \o paragraph \o NLNL
                  ELSE <<"#", "#", "#", " ">> \o paragraph \o NLNL
             ELSE paragraph \o NLNL
        ELSE IF HasListLine(lines)
             THEN EachLine(lines) \o NL
             ELSE Join(lines, <<" ">>) \o NLNL

RECURSIVE RenderAll(_)
\* the for loop over the paragraphs
RenderAll(paragraphs) ==
    IF paragraphs = <<>>
    THEN <<>>
    ELSE RenderParagraph(Head(paragraphs)) \o RenderAll(Tail(paragraphs))

generate_markdown(text, title, page_count, pdf_filename, processed_date) ==
    MarkdownHeader(title, page_count, pdf_filename, processed_date)
    \o RenderAll(Paragraphs(text))

(***************************************************************************)
(* Files.  A file is absent, partial (opened for writing, the write then   *)
(* raised: truncated, not valid JSON) or full (its data as written).       *)
(***************************************************************************)
\* the documents placed in pdfs/, by stem; glob("*.pdf") finds them all
Stems == {"a", "b"}

\* pdf_file.name of the file with this stem
PdfName(stem) == IF stem = "a" THEN "a.pdf" ELSE "b.pdf"

\* the characters of a stem and of a file name, for the markdown header
StemChars(stem) == <<stem>>

PdfNameChars(stem) == <<stem, ".", "p", "d", "f">>

Absent(empty) == [state |-> "absent", data |-> empty]

Partial(empty) == [state |-> "partial", data |-> empty]

Full(data) == [state |-> "full", data |-> data]

\* Path.exists()
Exists(file) == file.state # "absent"

NoCollection == [name |-> "", documents |-> <<>>]

\* every order in which glob may list the members of S
Orders(S) ==
    {o \in [1..Cardinality(S) -> S] : \A i, j \in 1..Cardinality(S) : o[i] = o[j] => i = j}

(***************************************************************************)
(* prepare_openwebui_collection                                            *)
(***************************************************************************)
collection_name == "Document Knowledge Base"

\* the k-th call of uuid.uuid4() returns a value no earlier call returned
Uuid4(k) == k

RECURSIVE LoadAllChunks(_, _)
\* the loading loop over chunk_files: json.load raises on a partial file, which
\* the except clause reports and skips
LoadAllChunks(chunk_files, dir) ==
    IF chunk_files = <<>>
    THEN <<>>
    ELSE (IF dir[Head(chunk_files)].state = "full"
          THEN dir[Head(chunk_files)].data
          ELSE <<>>)
         \o LoadAllChunks(Tail(chunk_files), dir)

\* ReturnsEarly with the test dropped
ReturnsEarlyNever(chunks) == FALSE

\* if not all_chunks: return
ReturnsEarly(chunks) == chunks = <<>>

\* docs_by_source as the ordered list of its (key, value) items after one more chunk
AddToGroups(groups, chunk) ==
    LET source == chunk.metadata.source
    IN  IF \E g \in 1..Len(groups) : groups[g].source = source
        THEN [g \in 1..Len(groups) |->
                 IF groups[g].source = source
                 THEN [groups[g] EXCEPT !.chunks = Append(@, chunk)]
                 ELSE groups[g]]
        ELSE Append(groups, [source |-> source, chunks |-> <<chunk>>])

RECURSIVE GroupBySource(_, _)
\* the grouping loop
GroupBySource(chunks, groups) ==
    IF chunks = <<>>
    THEN groups
    ELSE GroupBySource(Tail(chunks), AddToGroups(groups, Head(chunks)))

\* ContentChunk passing the stored metadata through
ContentChunkStored(chunk_id, doc_id, chunk, source, i, doc_chunks) ==
    [id |-> chunk_id,
     doc_id |-> doc_id,
     content |-> chunk.text,
     metadata |-> [source |-> source, chunk_index |-> chunk.metadata.chunk_index,
                   total_chunks |-> chunk.metadata.total_chunks]]

\* the dict appended to content_chunks for the chunk at position i (0-based)
ContentChunk(chunk_id, doc_id, chunk, source, i, doc_chunks) ==
    [id |-> chunk_id,
     doc_id |-> doc_id,
     content |-> chunk.text,
     metadata |-> [source |-> source, chunk_index |-> i,
                   total_chunks |-> Len(doc_chunks)]]

\* the document built for one source; used is the number of uuid4 calls before it
MakeDocument(source, doc_chunks, used) ==
    LET doc_id == Uuid4(used + 1)
    IN  [id |-> doc_id,
         url |-> "",
         title |-> source,
         content_chunks |->
             [k \in 1..Len(doc_chunks) |->
                 ContentChunk(Uuid4(used + 1 + k), doc_id, doc_chunks[k],
                              source, k - 1, doc_chunks)]]

RECURSIVE MakeDocuments(_, _)
\* the loop over docs_by_source.items()
MakeDocuments(groups, used) ==
    IF groups = <<>>
    THEN <<>>
    ELSE <<MakeDocument(Head(groups).source, Head(groups).chunks, used)>>
         \o MakeDocuments(Tail(groups), used + 1 + Len(Head(groups).chunks))

\* the collection dict
MakeCollection(chunks, name, used) ==
    [name |-> name, documents |-> MakeDocuments(GroupBySource(chunks, <<>>), used)]

\* the number of uuid4 calls one assembly makes
UuidCalls(chunks) == Len(GroupBySource(chunks, <<>>)) + Len(chunks)

\* the whole function: chunk_files is the glob result
prepare_openwebui_collection(chunk_files) ==
    LET loaded == LoadAllChunks(chunk_files, chunks_dir)
    IN  /\ all_chunks' = loaded
        /\ IF ReturnsEarly(loaded)
           THEN UNCHANGED <<knowledge_collection, instructions_file, uuidCount>>
           ELSE /\ knowledge_collection' =
                       Full(MakeCollection(loaded, collection_name, uuidCount))
                /\ instructions_file' = Full(collection_name)
                /\ uuidCount' = uuidCount + UuidCalls(loaded)

\* the files glob("*_chunks.json") lists
ChunkFileStems == {s \in Stems : Exists(chunks_dir[s])}

(***************************************************************************)
(* The parts of the state a specification does not use                     *)
(***************************************************************************)
ChunkIdle ==
    /\ ckText = <<>>
    /\ ckSource = "a.pdf"
    /\ ckSize = chunk_size
    /\ ckOverlap = overlap
    /\ ckPc = "idle"
    /\ ckOut = [raised |-> "none", chunks |-> <<>>, starts |-> <<>>]

MdIdle ==
    /\ mdText = <<>>
    /\ mdPc = "idle"
    /\ mdOut = <<>>

AsmIdle ==
    /\ asmPc = "idle"
    /\ all_chunks = <<>>
    /\ uuidCount = 0

NoJson ==
    [title |-> "", source |-> "", pages |-> 0, processed_date |-> <<>>,
     chunks_count |-> 0, full_text |-> <<>>]

\* processed_docs/ as the first run creates it
DirsEmpty ==
    /\ chunks_dir = [s \in Stems |-> Absent(<<>>)]
    /\ txt_files = [s \in Stems |-> Absent(<<>>)]
    /\ md_files = [s \in Stems |-> Absent(<<>>)]
    /\ json_files = [s \in Stems |-> Absent(NoJson)]
    /\ ollama_files = [s \in Stems |-> Absent(<<>>)]
    /\ knowledge_collection = Absent(NoCollection)
    /\ instructions_file = Absent("")

RunIdle ==
    /\ pc = "idle"
    /\ runs = 0
    /\ force_reprocess = FALSE
    /\ skip_openwebui = FALSE
    /\ pdf_files = <<>>
    /\ idx = 1
    /\ processed_count = 0
    /\ skipped_count = 0
    /\ file_details = <<>>
    /\ assembleCalls = 0
    /\ returned = "none"
    /\ touched = {}
    /\ everProcessed = {}
    /\ lastAttempt = [s \in Stems |-> "none"]

(***************************************************************************)
(* SpecChunk: the chunking loop applied to one (text, chunk_size, overlap) *)
(***************************************************************************)
\* lengths around the stride and the chunk size process_pdfs uses
LongTextLens ==
    {chunk_size - overlap, chunk_size - overlap + 1, chunk_size,
     2 * (chunk_size - overlap), 2 * (chunk_size - overlap) + 1}

ShortTexts == SeqsUpTo(ChunkChars, MaxTextLen)

\* the offsets at which the loop appended a chunk
EmittedStarts(text, size, ovl) ==
    IF size - ovl = 0
    THEN <<>>
    ELSE SelectSeq(PyRange(0, Len(text), size - ovl),
                   LAMBDA i : Slice(text, i, i + size) # <<>>)

InitChunk ==
    /\ \/ /\ ckSize \in 1..MaxChunkSize
          /\ ckOverlap \in 0..MaxOverlap
          /\ ckText \in ShortTexts
       \/ /\ ckSize = chunk_size
          /\ ckOverlap = overlap
          /\ ckText \in ShortTexts \cup {Repeat("a", n) : n \in LongTextLens}
    /\ ckSource = "a.pdf"
    /\ ckPc = "ready"
    /\ ckOut = [raised |-> "none", chunks |-> <<>>, starts |-> <<>>]
    /\ MdIdle /\ AsmIdle /\ DirsEmpty /\ RunIdle

Chunk ==
    /\ ckPc = "ready"
    /\ ckOut' = [raised |-> ChunkText(ckText, ckSource, ckSize, ckOverlap).raised,
                 chunks |-> ChunkText(ckText, ckSource, ckSize, ckOverlap).chunks,
                 starts |-> EmittedStarts(ckText, ckSize, ckOverlap)]
    /\ ckPc' = "done"
    /\ UNCHANGED <<ckText, ckSource, ckSize, ckOverlap>>
    /\ UNCHANGED <<mdVars, asmVars, dirVars, runVars>>

NextChunk == Chunk

SpecChunk == InitChunk /\ [][NextChunk]_vars

ChunkDone == ckPc = "done"

ValidConfig == ckSize > ckOverlap /\ ckOverlap >= 0

Stride == ckSize - ckOverlap

\* C1: with chunk_size > overlap >= 0 the emitted chunks start at 0, s, 2s, ...
\* (s = chunk_size - overlap), chunk k is T[start : start + chunk_size], and every
\* character position of T lies inside some emitted chunk.
C1_Coverage ==
    (ChunkDone /\ ValidConfig) =>
        /\ Len(ckOut.starts) = Len(ckOut.chunks)
        /\ \A k \in 1..Len(ckOut.chunks) :
              /\ ckOut.starts[k] = (k - 1) * Stride
              /\ ckOut.chunks[k].text =
                     SubSeq(ckText, ckOut.starts[k] + 1,
                            Min(ckOut.starts[k] + ckSize, Len(ckText)))
        /\ \A pos \in 1..Len(ckText) :
              \E k \in 1..Len(ckOut.chunks) :
                  /\ ckOut.starts[k] < pos
                  /\ pos <= ckOut.starts[k] + Len(ckOut.chunks[k].text)

C1_Witness ==
    /\ ChunkDone /\ ValidConfig
    /\ ckOverlap > 0
    /\ Len(ckOut.chunks) >= 3
    /\ Len(ckOut.chunks[Len(ckOut.chunks)].text) < ckSize

\* C2: only non-empty chunks are emitted, their chunk_index values are 0..n-1 in
\* order, the empty text gives no chunk, and a text of 1..chunk_size-overlap
\* characters gives exactly one chunk holding the whole text with chunk_index 0.
C2_Indexing ==
    (ChunkDone /\ ValidConfig) =>
        /\ \A k \in 1..Len(ckOut.chunks) :
              /\ ckOut.chunks[k].text # <<>>
              /\ ckOut.chunks[k].metadata.chunk_index = k - 1
        /\ (ckText = <<>> => ckOut.chunks = <<>>)
        /\ (Len(ckText) >= 1 /\ Len(ckText) <= Stride) =>
              /\ Len(ckOut.chunks) = 1
              /\ ckOut.chunks[1].text = ckText
              /\ ckOut.chunks[1].metadata.chunk_index = 0

C2_Witness ==
    /\ ChunkDone
    /\ ckSize = chunk_size /\ ckOverlap = overlap
    /\ ckText = <<"a", "b">>
    /\ Len(ckOut.chunks) = 1

C9_TotalChunks ==
    (ChunkDone /\ ValidConfig /\ ckText # <<>>) =>
        LET total == (Len(ckText) \div Stride) + 1
            n == Len(ckOut.chunks)
        IN  /\ \A k \in 1..n :
                  /\ ckOut.chunks[k].metadata.total_chunks = total
                  /\ ckOut.chunks[k].metadata.chunk_index < total
            /\ n >= 1
            /\ (Len(ckText) % Stride # 0) => total = n
            /\ (Len(ckText) % Stride = 0) => total = n + 1
            /\ total >= n

C9_Witness ==
    /\ ChunkDone
    /\ ckSize = chunk_size /\ ckOverlap = overlap
    /\ Len(ckText) = 2 * (chunk_size - overlap)
    /\ Len(ckOut.chunks) = 2
    /\ ckOut.chunks[1].metadata.total_chunks = 3

(***************************************************************************)
(* SpecMd: generate_markdown applied to one text                           *)
(***************************************************************************)
MaxMdLines == 3

\* short lines: list markers (one behind a leading blank), a numbered line that
\* is no recognised marker, headings, plain text, the empty line
ShortLines ==
    {<<"-", " ", "a">>, <<" ", "*", "a">>, <<Bullet, "a">>, <<"1", ".", "a">>,
     <<"3", ".", "a">>, <<"a">>, <<"A", ":">>, <<>>}

LineSeps == {NL, NLNL}

\* single lines whose lengths lie around the two thresholds
LineLens ==
    {1} \cup ((SHORT_HEADING_LEN - 4)..SHORT_HEADING_LEN)
        \cup ((HEADING_MAX_LEN - 4)..HEADING_MAX_LEN)

LongLines ==
    {prefix \o Repeat(fill, n) \o suffix :
        prefix \in {<<>>, <<"-", " ">>, <<"2", ".">>},
        fill \in {"A", "a", "7"},
        n \in LineLens,
        suffix \in {<<>>, <<":">>, <<".">>, <<"!">>}}

RECURSIVE Interleave(_, _)
\* lines[1] seps[1] lines[2] seps[2] ... lines[n]
Interleave(lines, seps) ==
    IF Len(lines) = 1
    THEN lines[1]
    ELSE lines[1] \o seps[1] \o Interleave(Tail(lines), Tail(seps))

\* the header arguments of the checked calls
MdArgs ==
    [title |-> <<"T">>, page_count |-> 12, pdf_filename |-> <<"T", ".", "p", "d", "f">>,
     processed_date |-> <<"2", "0", "2", "4", "-", "0", "1", "-", "0", "1">>]

InitMd ==
    /\ \/ mdText \in LongLines
       \/ \E n \in 1..MaxMdLines :
            \E lines \in [1..n -> ShortLines] :
              \E seps \in [1..(n - 1) -> LineSeps] :
                mdText = Interleave(lines, seps)
    /\ mdPc = "ready"
    /\ mdOut = <<>>
    /\ ChunkIdle /\ AsmIdle /\ DirsEmpty /\ RunIdle

Generate ==
    /\ mdPc = "ready"
    /\ mdOut' = generate_markdown(mdText, MdArgs.title, MdArgs.page_count,
                                  MdArgs.pdf_filename, MdArgs.processed_date)
    /\ mdPc' = "done"
    /\ UNCHANGED mdText
    /\ UNCHANGED <<ckVars, asmVars, dirVars, runVars>>

NextMd == Generate

SpecMd == InitMd /\ [][NextMd]_vars

\* the four rules of the paragraph classification, in their stated precedence
RuleLines(P) == Split(P, NL)

RuleIsOneLine(P) == \A k \in 1..Len(P) : P[k] # "\n"

RuleHeading(P) ==
    /\ RuleIsOneLine(P)
    /\ Len(P) < 100
    /\ (IsUpper(P) \/ P[Len(P)] = ":" \/ P[Len(P)] = ".")

RuleList(P) ==
    \E k \in 1..Len(RuleLines(P)) :
        LET t == Strip(RuleLines(P)[k])
        IN  \/ (t # <<>> /\ t[1] \in {Bullet, "-", "*"})
            \/ (Len(t) >= 2 /\ t[1] \in {"1", "2"} /\ t[2] = ".")

RuleOutput(P) ==
    IF RuleHeading(P)
    THEN (IF Len(P) < 50 THEN <<"#", "#", " ">> ELSE <<"#", "#", "#", " ">>)
         \o P \o <<"\n", "\n">>
    ELSE IF RuleIsOneLine(P)
         THEN P \o <<"\n", "\n">>
         ELSE IF RuleList(P)
              THEN EachLine(RuleLines(P)) \o <<"\n">>
              ELSE Join(RuleLines(P), <<" ">>) \o <<"\n", "\n">>

RECURSIVE RuleOutputs(_)
RuleOutputs(ps) ==
    IF ps = <<>> THEN <<>> ELSE RuleOutput(Head(ps)) \o RuleOutputs(Tail(ps))

\* C6: after the header, generate_markdown appends for every non-empty paragraph P
\* exactly the output of the four-rule precedence: heading (## below 50
\* characters, ### otherwise), single line as is, list lines verbatim, or the lines
\* joined by single spaces, each followed by one blank line.
C6_ParagraphRules ==
    (mdPc = "done") =>
        mdOut = MarkdownHeader(MdArgs.title, MdArgs.page_count, MdArgs.pdf_filename,
                               MdArgs.processed_date)
                \o RuleOutputs(Paragraphs(mdText))

\* a single line of 100 characters or more that carries a list marker and ends
\* with a full stop: no heading, emitted as is
C6_Witness ==
    /\ mdPc = "done"
    /\ Len(mdText) >= 100
    /\ mdText[1] = "-"
    /\ mdText[Len(mdText)] = "."
    /\ Paragraphs(mdText) = <<mdText>>
    /\ SubSeq(mdOut, Len(mdOut) - Len(mdText) - 1, Len(mdOut)) = mdText \o <<"\n", "\n">>

(***************************************************************************)
(* SpecAsm: prepare_openwebui_collection over a chunks directory           *)
(***************************************************************************)
\* chunks in all the chunk files together
MaxChunks == 3

\* chunks as a chunk file may hold them: either source, stored positions that
\* need not be the position the chunk has in the file
StoredChunks ==
    {MakeChunk(t, src, m[1], m[2]) :
        t \in {<<"x">>, <<"y">>}, src \in {PdfName(s) : s \in Stems},
        m \in {<<0, 1>>, <<1, 2>>}}

\* a collection left by an earlier assembly
StaleCollection ==
    [name |-> collection_name,
     documents |-> MakeDocuments(<<[source |-> "a.pdf",
                                    chunks |-> <<MakeChunk(<<"o">>, "a.pdf", 0, 1)>>]>>, 0)]

ChunkFile(state, data) == IF state = "full" THEN Full(data) ELSE [state |-> state, data |-> <<>>]

InitAsm ==
    /\ \E chunks \in SeqsUpTo(StoredChunks, MaxChunks) :
         \E cut \in 0..Len(chunks) :
           \E sa, sb \in {"absent", "partial", "full"} :
             chunks_dir = [s \in Stems |->
                             IF s = "a"
                             THEN ChunkFile(sa, SubSeq(chunks, 1, cut))
                             ELSE ChunkFile(sb, SubSeq(chunks, cut + 1, Len(chunks)))]
    /\ \/ /\ knowledge_collection = Absent(NoCollection)
          /\ instructions_file = Absent("")
       \/ /\ knowledge_collection = Full(StaleCollection)
          /\ instructions_file = Full(collection_name)
    /\ txt_files = [s \in Stems |-> Absent(<<>>)]
    /\ md_files = [s \in Stems |-> Absent(<<>>)]
    /\ json_files = [s \in Stems |-> Absent(NoJson)]
    /\ ollama_files = [s \in Stems |-> Absent(<<>>)]
    /\ asmPc = "ready"
    /\ all_chunks = <<>>
    /\ uuidCount = 0
    /\ ChunkIdle /\ MdIdle /\ RunIdle

Assemble ==
    /\ asmPc = "ready"
    /\ \E chunk_files \in Orders(ChunkFileStems) :
           prepare_openwebui_collection(chunk_files)
    /\ asmPc' = "done"
    /\ UNCHANGED <<chunks_dir, txt_files, md_files, json_files, ollama_files>>
    /\ UNCHANGED <<ckVars, mdVars, runVars>>

NextAsm == Assemble

SpecAsm == InitAsm /\ [][NextAsm]_vars

\* the sources of the loaded chunks
LoadedSources == {all_chunks[k].metadata.source : k \in 1..Len(all_chunks)}

\* position of the first loaded chunk of a source
FirstAt(src) ==
    CHOOSE k \in 1..Len(all_chunks) :
        /\ all_chunks[k].metadata.source = src
        /\ \A j \in 1..(k - 1) : all_chunks[j].metadata.source # src

\* the loaded chunks of a source, in their input order
ChunksOf(src) == SelectSeq(all_chunks, LAMBDA c : c.metadata.source = src)

Documents == knowledge_collection.data.documents

\* C4: for a non-empty list of loaded chunks the collection has one document per
\* distinct source, in order of first appearance; a document's content_chunks are
\* the input chunks of its source in input order; the i-th has chunk_index i and
\* total_chunks the length, whatever the chunk stored; doc_id is the document's id.
C4_Grouping ==
    (asmPc = "done" /\ all_chunks # <<>>) =>
        /\ knowledge_collection.state = "full"
        /\ Len(Documents) = Cardinality(LoadedSources)
        /\ {Documents[d].title : d \in 1..Len(Documents)} = LoadedSources
        /\ \A d, e \in 1..Len(Documents) :
              d < e => FirstAt(Documents[d].title) < FirstAt(Documents[e].title)
        /\ \A d \in 1..Len(Documents) :
              LET doc == Documents[d]
                  input == ChunksOf(doc.title)
              IN  /\ Len(doc.content_chunks) = Len(input)
                  /\ \A i \in 1..Len(doc.content_chunks) :
                        /\ doc.content_chunks[i].content = input[i].text
                        /\ doc.content_chunks[i].metadata.source = doc.title
                        /\ doc.content_chunks[i].metadata.chunk_index = i - 1
                        /\ doc.content_chunks[i].metadata.total_chunks = Len(input)
                        /\ doc.content_chunks[i].doc_id = doc.id

\* two sources interleaved over two files, with stored positions that differ from
\* the positions in the grouping
C4_Witness ==
    /\ asmPc = "done"
    /\ Len(all_chunks) = 3
    /\ all_chunks[1].metadata.source = "b.pdf"
    /\ all_chunks[2].metadata.source = "a.pdf"
    /\ all_chunks[3].metadata.source = "b.pdf"
    /\ all_chunks[3].metadata.chunk_index = 0
    /\ Len(Documents) = 2
    /\ Documents[1].title = "b.pdf"
    /\ Documents[1].content_chunks[2].metadata.chunk_index = 1

\* C5 as stated: with no chunk loaded, assembly yields a collection with the name
\* set and documents = [].
C5_EmptyCollectionWritten ==
    (asmPc = "done" /\ all_chunks = <<>>) =>
        knowledge_collection = Full([name |-> collection_name, documents |-> <<>>])

\* C5 amended: with no chunk loaded (no chunk file, or only empty or unreadable
\* ones) assembly returns without failing and without building or writing any
\* collection: the collection file and the instructions file stay as they were.
C5_EmptyInputWritesNothing ==
    [][(asmPc = "ready" /\ asmPc' = "done" /\ all_chunks' = <<>>)
          => (/\ knowledge_collection' = knowledge_collection
              /\ instructions_file' = instructions_file
              /\ uuidCount' = uuidCount)]_vars

\* no chunk loaded although a chunk file is there, and no collection file after
C5_Witness ==
    /\ asmPc = "done"
    /\ all_chunks = <<>>
    /\ \E s \in Stems : chunks_dir[s].state = "partial"
    /\ \E s \in Stems : chunks_dir[s] = Full(<<>>)
    /\ knowledge_collection.state = "absent"

(***************************************************************************)
(* Spec: runs of process_pdfs, one after the other, over the same folders  *)
(***************************************************************************)
MaxRuns == 2

\* the text of each page of the documents in pdfs/: a.pdf has no page, b.pdf two
PdfPages(stem) == IF stem = "a" THEN <<>> ELSE <<<<"I", "N">>, <<"x">>>>

RECURSIVE ExtractText(_)
\* text = ""; for page in reader.pages: text += page.extract_text() + "\n\n"
ExtractText(pages) ==
    IF pages = <<>> THEN <<>> ELSE Head(pages) \o NLNL \o ExtractText(Tail(pages))

\* datetime.now() as formatted in the run with this number
ProcessedDate(run) == <<"r", "u", "n">> \o IntToChars(run)

\* the statements of the try block that can raise, in program order
Steps == <<"read", "extract", "mkdir", "txt", "md", "chunks", "json", "ollama">>

StepNo(step) == CHOOSE k \in 1..Len(Steps) : Steps[k] = step

FileSteps == {"txt", "md", "chunks", "json", "ollama"}

\* how a processing attempt ends: no statement raises, or one does; a file
\* statement raises in open() (the file is left as it was) or after it (the file
\* is left truncated)
Outcomes ==
    {[fail |-> "none", mode |-> "open"]}
    \cup {[fail |-> Steps[k], mode |-> "open"] : k \in 1..Len(Steps)}
    \cup {[fail |-> f, mode |-> "write"] : f \in FileSteps}

\* the statement was completed
Completed(step, outcome) ==
    outcome.fail = "none" \/ StepNo(step) < StepNo(outcome.fail)

\* the file a with-open-write statement leaves behind
Written(old, step, data, empty, outcome) ==
    IF Completed(step, outcome)
    THEN Full(data)
    ELSE IF outcome.fail = step /\ outcome.mode = "write"
         THEN Partial(empty)
         ELSE old

\* is_pdf_processed
is_pdf_processed(stem) == Exists(chunks_dir[stem])

\* get_processed_info raises when json.load cannot parse the chunks file
GetProcessedInfoRaises(stem) == chunks_dir[stem].state = "partial"

\* get_processed_info: the keys it sets, and chunks_count
get_processed_info(stem, cdir, txts, mds, jsons, ollamas) ==
    [keys |-> (IF Exists(cdir[stem]) THEN {"chunks_count"} ELSE {})
              \cup (IF Exists(txts[stem]) THEN {"text_size_mb", "text_lines"} ELSE {})
              \cup (IF Exists(jsons[stem]) THEN {"json_size_mb"} ELSE {})
              \cup (IF Exists(mds[stem]) THEN {"md_size_mb"} ELSE {})
              \cup (IF Exists(ollamas[stem]) THEN {"ollama_size_mb"} ELSE {}),
     chunks_count |-> Len(cdir[stem].data)]

\* the branch condition of the loop body
SkipCondition(stem) == ~force_reprocess /\ is_pdf_processed(stem)

\* the test before prepare_openwebui_collection
AssembleCondition == ~skip_openwebui /\ (processed_count > 0 \/ force_reprocess)

\* the value process_pdfs returns
ReturnValue == processed_count > 0 \/ skipped_count > 0

Init ==
    /\ ChunkIdle /\ MdIdle /\ AsmIdle /\ DirsEmpty /\ RunIdle

\* main calls process_pdfs(force, skip); glob lists the PDFs in some order
StartRun ==
    /\ pc \in {"idle", "returned", "crashed"}
    /\ runs < MaxRuns
    /\ runs' = runs + 1
    /\ force_reprocess' \in BOOLEAN
    /\ skip_openwebui' \in BOOLEAN
    /\ pdf_files' \in Orders(Stems)
    /\ idx' = 1
    /\ processed_count' = 0
    /\ skipped_count' = 0
    /\ file_details' = <<>>
    /\ assembleCalls' = 0
    /\ returned' = "none"
    /\ touched' = {}
    /\ pc' = "loop"
    /\ UNCHANGED <<everProcessed, lastAttempt>>
    /\ UNCHANGED <<ckVars, mdVars, asmVars, dirVars>>

\* the loop body, skip branch; get_processed_info is called outside the try block
SkipPdf ==
    /\ pc = "loop"
    /\ idx <= Len(pdf_files)
    /\ SkipCondition(pdf_files[idx])
    /\ LET stem == pdf_files[idx]
           info == get_processed_info(stem, chunks_dir, txt_files, md_files,
                                      json_files, ollama_files)
       IN  IF GetProcessedInfoRaises(stem)
           THEN /\ pc' = "crashed"
                /\ UNCHANGED <<idx, skipped_count, file_details>>
           ELSE /\ file_details' =
                       Append(file_details,
                              [name |-> PdfName(stem), status |-> "skipped",
                               keys |-> info.keys, chunks_count |-> info.chunks_count])
                /\ skipped_count' = skipped_count + 1
                /\ idx' = idx + 1
                /\ pc' = pc
    /\ UNCHANGED <<runs, force_reprocess, skip_openwebui, pdf_files, processed_count,
                   assembleCalls, returned, touched, everProcessed, lastAttempt>>
    /\ UNCHANGED <<ckVars, mdVars, asmVars, dirVars>>

\* the loop body, try block and except clause
ProcessPdf ==
    /\ pc = "loop"
    /\ idx <= Len(pdf_files)
    /\ ~SkipCondition(pdf_files[idx])
    /\ \E outcome \in Outcomes :
        LET stem == pdf_files[idx]
            pages == PdfPages(stem)
            text == ExtractText(pages)
            processed_date == ProcessedDate(runs)
            markdown_content ==
                generate_markdown(text, StemChars(stem), Len(pages),
                                  PdfNameChars(stem), processed_date)
            chunks == ChunkText(text, PdfName(stem), chunk_size, overlap).chunks
            doc == [title |-> stem, source |-> PdfName(stem), pages |-> Len(pages),
                    processed_date |-> processed_date, chunks_count |-> Len(chunks),
                    full_text |-> text]
            status == IF outcome.fail = "none" THEN "processed" ELSE "error"
            cdir == [chunks_dir EXCEPT
                        ![stem] = Written(@, "chunks", chunks, <<>>, outcome)]
            txts == [txt_files EXCEPT
                        ![stem] = Written(@, "txt", text, <<>>, outcome)]
            mds == [md_files EXCEPT
                        ![stem] = Written(@, "md", markdown_content, <<>>, outcome)]
            jsons == [json_files EXCEPT
                        ![stem] = Written(@, "json", doc, NoJson, outcome)]
            ollamas == [ollama_files EXCEPT
                        ![stem] = Written(@, "ollama", chunks, <<>>, outcome)]
            info == get_processed_info(stem, cdir, txts, mds, jsons, ollamas)
        IN  /\ chunks_dir' = cdir
            /\ txt_files' = txts
            /\ md_files' = mds
            /\ json_files' = jsons
            /\ ollama_files' = ollamas
            /\ file_details' =
                   Append(file_details,
                          [name |-> PdfName(stem), status |-> status,
                           keys |-> (IF Completed("read", outcome)
                                     THEN {"pages"} ELSE {})
                                    \cup (IF status = "processed"
                                          THEN info.keys ELSE {"error"}),
                           chunks_count |-> IF status = "processed"
                                            THEN info.chunks_count ELSE 0])
            /\ processed_count' =
                   IF status = "processed" THEN processed_count + 1 ELSE processed_count
            /\ touched' =
                   IF Completed("chunks", outcome)
                      \/ (outcome.fail = "chunks" /\ outcome.mode = "write")
                   THEN touched \cup {stem} ELSE touched
            /\ everProcessed' =
                   IF status = "processed" THEN everProcessed \cup {stem}
                   ELSE everProcessed
            /\ lastAttempt' = [lastAttempt EXCEPT ![stem] = status]
    /\ idx' = idx + 1
    /\ UNCHANGED <<pc, runs, force_reprocess, skip_openwebui, pdf_files, skipped_count,
                   assembleCalls, returned>>
    /\ UNCHANGED <<knowledge_collection, instructions_file>>
    /\ UNCHANGED <<ckVars, mdVars, asmVars>>

\* after the loop: the summary, the collection, the return
FinishRun ==
    /\ pc = "loop"
    /\ idx > Len(pdf_files)
    /\ IF AssembleCondition
       THEN /\ \E chunk_files \in Orders(ChunkFileStems) :
                   prepare_openwebui_collection(chunk_files)
            /\ assembleCalls' = assembleCalls + 1
       ELSE UNCHANGED <<all_chunks, uuidCount, knowledge_collection,
                        instructions_file, assembleCalls>>
    /\ returned' = IF ReturnValue THEN "true" ELSE "false"
    /\ pc' = "returned"
    /\ UNCHANGED <<runs, force_reprocess, skip_openwebui, pdf_files, idx,
                   processed_count, skipped_count, file_details, touched,
                   everProcessed, lastAttempt>>
    /\ UNCHANGED <<chunks_dir, txt_files, md_files, json_files, ollama_files>>
    /\ UNCHANGED <<ckVars, mdVars, asmPc>>

Next ==
    \/ StartRun
    \/ SkipPdf
    \/ ProcessPdf
    \/ FinishRun

Spec == Init /\ [][Next]_vars

\* the run is over: process_pdfs returned, or an exception left it
RunEnded == pc \in {"returned", "crashed"}

TerminalStatuses == {"processed", "skipped", "error"}

StemOf(name) == CHOOSE s \in Stems : PdfName(s) = name

\* the entries of file_details with a status
CountStatus(status) ==
    Cardinality({k \in 1..Len(file_details) : file_details[k].status = status})

\* every PDF found has exactly one entry, with a terminal status
AllTerminal ==
    /\ Len(file_details) = Len(pdf_files)
    /\ \A k \in 1..Len(file_details) :
          /\ file_details[k].name = PdfName(pdf_files[k])
          /\ file_details[k].status \in TerminalStatuses

\* C7: in a run, prepare_openwebui_collection is called at most once, only when
\* every PDF found has a terminal status and its chunk file is fully written or
\* was not written by this run, and exactly when skip_openwebui is false and a PDF
\* was newly processed or force_reprocess is set.
C7_AssemblyBarrier ==
    /\ assembleCalls <= 1
    /\ (assembleCalls = 1) =>
          /\ AllTerminal
          /\ \A s \in Stems : chunks_dir[s].state = "full" \/ s \notin touched
    /\ RunEnded => ((assembleCalls = 1) <=> AssembleCondition)

\* C8: a PDF whose processing raises ends with status error and in neither count,
\* the PDFs after it still reach a terminal status, so that when the run is over
\* every PDF found has one status and the return value is
\* processed_count > 0 or skipped_count > 0.
C8_FailureIsolation ==
    /\ processed_count = CountStatus("processed")
    /\ skipped_count = CountStatus("skipped")
    /\ RunEnded =>
          /\ AllTerminal
          /\ returned = (IF ReturnValue THEN "true" ELSE "false")

\* C10: without force_reprocess a PDF is skipped only if an earlier run finished
\* processing it with status processed (all five outputs written), and a PDF whose
\* last processing ended with status error is not skipped.
C10_SkipOnlyAfterSuccess ==
    \A k \in 1..Len(file_details) :
        (file_details[k].status = "skipped") =>
            LET s == StemOf(file_details[k].name)
            IN  /\ s \in everProcessed
                /\ lastAttempt[s] # "error"
                /\ \A f \in {txt_files[s], md_files[s], chunks_dir[s],
                             ollama_files[s]} : f.state = "full"
                /\ json_files[s].state = "full"

====
